---------------------------- MODULE Spec2Model ----------------------------
(***************************************************************************)
(* Per-record enrichment pipeline of the wikibots repository: BaseBot     *)
(* (lib/bot.py) and the five source-platform bots built on it.             *)
(*                                                                         *)
(* One behaviour is a sequence of runs of ONE bot (chosen in Init).  A run *)
(* walks the generator's records in order; for each record the framework   *)
(* calls skip_page and then treat_page.  Every handler is one action: the  *)
(* whole of treat_page, with every helper it calls, is computed by the     *)
(* operator of the same name over a record "b" holding the bot's mutable   *)
(* state (wiki_properties, the Redis content, the taxa cache, the external *)
(* calls made so far).                                                     *)
(*                                                                         *)
(* FlickrBot and YouTubeBot are written against the BaseBot attribute      *)
(* names self.mid / self.existing_claims / self.new_claims and             *)
(* save(summary); they are read here as the per-record fields that         *)
(* BaseBot.treat_page creates (wiki_properties.mid / .existing_claims /    *)
(* .new_claims) and BaseBot.save.                                          *)
(*                                                                         *)
(* The generators are searches of the wiki ("-haswbstatement:P"): a record *)
(* that holds the excluded statement is left out once the search index has *)
(* caught up with the knowledge base, and is still yielded before that.    *)
(*                                                                         *)
(* Redis keys carry the bot's prefix in the code; a behaviour has one bot, *)
(* so the prefix is left out of the key.                                   *)
(***************************************************************************)
EXTENDS Integers, Sequences, FiniteSets, TLC

VARIABLES
    bot,                \* which bot class runs: "inaturalist", "pas", "flickr", "youtube", "usace"
    dry_run,            \* BaseBot.dry_run of the current run
    run,                \* number of the current run of the bot
    pc,                 \* "running" | "done" | "quit" | "crashed"
    idx,                \* position of the generator in the current run
    redis,              \* keys present in the Redis fingerprint cache
    kb,                 \* kb[r]: structured statements the knowledge base holds for record r
    edited,             \* records whose history holds an edit by the bot account
    wikitext,           \* wikitext[r]: the page of record r (templates, links, categories)
    taxa_wikidata_map,  \* INaturalistBot.taxa_wikidata_map (class attribute)
    platform,           \* what the Flickr API, the iNaturalist API and Wikidata answer
    last                \* what the last handler did: its record, delta, external calls

vars == <<bot, dry_run, run, pc, idx, redis, kb, edited, wikitext, taxa_wikidata_map,
          platform, last>>

\* Number of records the generator yields in a run.
NumRecords == 2

Records == 1..NumRecords

\* Number of times the bot is started.
MaxRuns == 2

Bots == {"inaturalist", "pas", "flickr", "youtube", "usace"}

\* Bots derived from BaseBot (UsaceBot derives from ExistingPageBot directly).
BaseBots == Bots \ {"usace"}

-----------------------------------------------------------------------------
(* Text.  A string of the page is its content and whether whitespace      *)
(* surrounds it; str.strip() removes the whitespace, == compares both.     *)

T(s) == [pad |-> FALSE, s |-> s]

Padded(s) == [pad |-> TRUE, s |-> s]

strip(t) == [pad |-> FALSE, s |-> t.s]

NoText == [pad |-> FALSE, s |-> "<None>"]

\* A template invocation: its name and its parameters (name -> value).
Tpl(name, params) == [name |-> name, params |-> params]

\* Template.has(param)
has(t, param) == \E p \in t.params : p[1] = param

\* Template.get(param).value
get(t, param) == (CHOOSE p \in t.params : p[1] = param)[2]

-----------------------------------------------------------------------------
(* Statements.  A Claim is its main property, its GUID (0: not yet in the  *)
(* knowledge base), its snak type, its target (an item or string in        *)
(* "item", numbers in "num"), its qualifiers and its references.           *)

Claim(property) ==
    [prop |-> property, id |-> 0, snak |-> "unset", item |-> "", num |-> <<>>,
     quals |-> {}, refs |-> {}]

Qualifier(property, item, num) == [prop |-> property, item |-> item, num |-> num]

setTarget(claim, item, num) == [claim EXCEPT !.snak = "value", !.item = item, !.num = num]

setSnakType(claim, type) == [claim EXCEPT !.snak = type, !.item = "", !.num = <<>>]

addQualifier(claim, q) == [claim EXCEPT !.quals = @ \cup {q}]

addSource(claim, q) == [claim EXCEPT !.refs = @ \cup {q}]

\* `property in existing_claims` of a ClaimCollection
HasProp(claims, property) == \E c \in claims : c.prop = property

\* existing_claims[property]
ClaimsOf(claims, property) == {c \in claims : c.prop = property}

\* WbTime.PRECISION
PRECISION_year == 9
PRECISION_month == 10
PRECISION_day == 11

-----------------------------------------------------------------------------
(* The bot's mutable state during one handler.                             *)

RedisKey(mid) == <<"commons", mid>>

PhotoKey(photo_id) == <<"photo", photo_id>>

Emit(b, call) == [b EXCEPT !.trace = Append(@, call)]

\* redis.set, were it to replace the content of the cache by the one key.
RedisSet_replacing(b, key) == [Emit(b, "redis.set") EXCEPT !.redis = {key}]

RedisSet(b, key) == [Emit(b, "redis.set") EXCEPT !.redis = @ \cup {key}]

Return(b, how) == [b EXCEPT !.status = how]

Append_new_claims(b, claim) == [b EXCEPT !.new_claims = Append(@, claim)]


-----------------------------------------------------------------------------
(* BaseBot (lib/bot.py)                                                    *)

\* skip_page, were it never to consult Redis.
BaseBot_skip_page_never(mid) == FALSE

\* BaseBot.skip_page: the record's key exists in Redis.
BaseBot_skip_page(mid) == RedisKey(mid) \in redis

\* treat_page, were it to keep the pending statements of the bot object.
BaseBot_treat_page_keeping(b, mid) ==
    [b EXCEPT !.mid = mid,
              !.redis_key = RedisKey(mid),
              !.existing_claims = {},
              !.loaded = {},
              !.hash = ""]

\* BaseBot.treat_page: a fresh WikiProperties for the record.
BaseBot_treat_page(b, mid) ==
    [b EXCEPT !.mid = mid,
              !.redis_key = RedisKey(mid),
              !.existing_claims = {},
              !.loaded = {},
              !.new_claims = <<>>,
              !.hash = ""]

\* BaseBot.fetch_claims: wbgetentities, then existing_claims := the record's statements.
fetch_claims(b) ==
    [Emit(b, "wbgetentities") EXCEPT !.existing_claims = kb[b.mid],
                                     !.loaded = kb[b.mid],
                                     !.fetched = b.mid]

\* `w.name.strip() in templates`
NameIn(name, templates) == name.pad = FALSE /\ name.s \in templates

\* The templates of the page whose stripped name is one of `templates`, in document order.
MatchingTemplates(wikicode, templates) ==
    SelectSeq(wikicode, LAMBDA w : NameIn(strip(w.name), templates))

\* Index of the first of `parameters` (in their order) that template t has; 0 if none.
FirstParam(t, parameters) ==
    LET I == {i \in DOMAIN parameters : has(t, parameters[i])}
    IN  IF I = {} THEN 0 ELSE CHOOSE i \in I : \A j \in I : i <= j

\* A field extraction the handler made and what it returned, kept for the record.
Extracted(b, templates, parameters, data) ==
    [b EXCEPT !.extracted = Append(@, [templates |-> templates, parameters |-> parameters,
                                       data |-> data])]

\* Variant of retrieve_template_data that leaves the cache alone on not-found.
retrieve_template_data_unmarked(b, wikicode, templates, parameters) ==
    LET _templates == MatchingTemplates(wikicode, templates)
    IN  IF _templates = <<>>
        THEN [b |-> Extracted(b, templates, parameters, NoText), data |-> NoText]
        ELSE LET t == _templates[1]
                 i == FirstParam(t, parameters)
             IN  IF i # 0
                 THEN [b |-> Extracted(b, templates, parameters, strip(get(t, parameters[i]))),
                       data |-> strip(get(t, parameters[i]))]
                 ELSE [b |-> Extracted(b, templates, parameters, NoText), data |-> NoText]

\* BaseBot.retrieve_template_data: [b, data]; data = NoText models None.
retrieve_template_data(b, wikicode, templates, parameters) ==
    LET _templates == MatchingTemplates(wikicode, templates)
    IN  IF _templates = <<>>
        THEN [b |-> Extracted(RedisSet(b, b.redis_key), templates, parameters, NoText),
              data |-> NoText]
        ELSE LET t == _templates[1]
                 i == FirstParam(t, parameters)
             IN  IF i # 0
                 THEN [b |-> Extracted(b, templates, parameters, strip(get(t, parameters[i]))),
                       data |-> strip(get(t, parameters[i]))]
                 ELSE [b |-> Extracted(RedisSet(b, b.redis_key), templates, parameters, NoText),
                       data |-> NoText]

\* Variant of create_id_claim that does not consult the existing-statement index.
create_id_claim_unchecked(b, property, value) ==
    Append_new_claims(b, setTarget(Claim(property), "", <<value>>))

\* BaseBot.create_id_claim
create_id_claim(b, property, value) ==
    IF HasProp(b.existing_claims, property)
    THEN b
    ELSE Append_new_claims(b, setTarget(Claim(property), "", <<value>>))

\* BaseBot.create_depicts_claim; depicts = "" models None.  The iNaturalist
\* hook adds a "stated in" reference.
create_depicts_claim(b, depicts) ==
    IF HasProp(b.existing_claims, "Depicts") \/ depicts = ""
    THEN b
    ELSE LET claim == setTarget(Claim("Depicts"), depicts, <<>>)
             hooked == IF b.bot = "inaturalist"
                       THEN addSource(claim, Qualifier("StatedIn", "iNaturalist", <<>>))
                       ELSE claim
         IN  Append_new_claims(b, hooked)

\* BaseBot.create_published_in_claim; date_posted = <<>> models None,
\* otherwise <<year, month, day>>.
create_published_in_claim(b, published_in, date_posted) ==
    IF HasProp(b.existing_claims, "PublishedIn")
    THEN b
    ELSE LET claim == setTarget(Claim("PublishedIn"), published_in, <<>>)
             dated == IF date_posted # <<>>
                      THEN addQualifier(claim,
                               Qualifier("PublicationDate", "",
                                         date_posted \o <<PRECISION_day>>))
                      ELSE claim
         IN  Append_new_claims(b, dated)

\* BaseBot.create_source_claim; operator = "" models None.
create_source_claim(b, source, operator) ==
    IF HasProp(b.existing_claims, "SourceOfFile")
    THEN b
    ELSE LET claim == addQualifier(
                          setTarget(Claim("SourceOfFile"), "FileAvailableOnInternet", <<>>),
                          Qualifier("DescribedAtUrl", "", <<source>>))
             withOp == IF operator # ""
                       THEN addQualifier(claim, Qualifier("Operator", operator, <<>>))
                       ELSE claim
         IN  Append_new_claims(b, withOp)

\* Variant of save whose failure handler records the record's key.
save_marks_on_failure(b, submit_result) ==
    LET s == [b EXCEPT !.save_called = TRUE, !.save_at = Len(b.trace)]
    IN  IF s.new_claims = <<>>
        THEN Return(s, "returned")
        ELSE IF s.dry_run
             THEN Return(Emit(s, "quit"), "quit")
             ELSE LET r == [Emit(Emit(s, "csrf"), "wbeditentity")
                                EXCEPT !.submit = submit_result,
                                       !.submitted_to = s.mid,
                                       !.submitted = s.new_claims]
                  IN  Return(IF submit_result = "fail" THEN RedisSet(r, r.redis_key) ELSE r,
                             "returned")

\* Variant of save without the early return on an empty new_claims.
save_submits_empty(b, submit_result) ==
    LET s == [b EXCEPT !.save_called = TRUE, !.save_at = Len(b.trace)]
    IN  IF s.dry_run
        THEN Return(Emit(s, "quit"), "quit")
        ELSE Return([Emit(Emit(s, "csrf"), "wbeditentity")
                         EXCEPT !.submit = submit_result,
                                !.submitted_to = s.mid,
                                !.submitted = s.new_claims],
                    "returned")

\* Variant of save without the dry-run branch.
save_ignores_dry_run(b, submit_result) ==
    LET s == [b EXCEPT !.save_called = TRUE, !.save_at = Len(b.trace)]
    IN  IF s.new_claims = <<>>
        THEN Return(s, "returned")
        ELSE Return([Emit(Emit(s, "csrf"), "wbeditentity")
                         EXCEPT !.submit = submit_result,
                                !.submitted_to = s.mid,
                                !.submitted = s.new_claims],
                    "returned")

\* Variant of save whose dry-run branch returns instead of calling self.quit().
save_dry_run_returns(b, submit_result) ==
    LET s == [b EXCEPT !.save_called = TRUE, !.save_at = Len(b.trace)]
    IN  IF s.new_claims = <<>>
        THEN Return(s, "returned")
        ELSE IF s.dry_run
             THEN Return(s, "returned")
             ELSE Return([Emit(Emit(s, "csrf"), "wbeditentity")
                              EXCEPT !.submit = submit_result,
                                     !.submitted_to = s.mid,
                                     !.submitted = s.new_claims],
                         "returned")

\* Variant of save whose request carries the first statement of the delta only.
save_first_statement(b, submit_result) ==
    LET s == [b EXCEPT !.save_called = TRUE, !.save_at = Len(b.trace)]
    IN  IF s.new_claims = <<>>
        THEN Return(s, "returned")
        ELSE IF s.dry_run
             THEN Return(Emit(s, "quit"), "quit")
             ELSE Return([Emit(Emit(s, "csrf"), "wbeditentity")
                              EXCEPT !.submit = submit_result,
                                     !.submitted_to = s.mid,
                                     !.submitted = <<s.new_claims[1]>>],
                         "returned")

\* BaseBot.save.  submit_result is what request.submit() does: "ok" or "fail"
\* (an exception).  self.quit() raises QuitKeyboardInterrupt, which ends the run.
save(b, submit_result) ==
    LET s == [b EXCEPT !.save_called = TRUE, !.save_at = Len(b.trace)]
    IN  IF s.new_claims = <<>>
        THEN Return(s, "returned")
        ELSE IF s.dry_run
             THEN Return(Emit(s, "quit"), "quit")
             ELSE Return([Emit(Emit(s, "csrf"), "wbeditentity")
                              EXCEPT !.submit = submit_result,
                                     !.submitted_to = s.mid,
                                     !.submitted = s.new_claims],
                         "returned")

-----------------------------------------------------------------------------
(* INaturalistBot (inaturalist.py)                                         *)

\* What api.inaturalist.org holds, by observation id: `found` FALSE makes
\* ['results'][0] raise.  Observation 2 does not hold the photo its page names.
INatObservation(observation_id) ==
    CASE observation_id = 1 ->
           [found |-> TRUE, photos |-> {1}, has_user |-> TRUE, user_id |-> 11,
            user_name |-> "Ann", orcid |-> "0000-0001-2345-6789",
            quality_grade |-> "research", prefers_community_taxon |-> FALSE,
            taxon |-> <<1, 2, 3>>, community_taxon |-> <<1>>]
      [] observation_id = 2 ->
           [found |-> TRUE, photos |-> {7}, has_user |-> TRUE, user_id |-> 12,
            user_name |-> "Bob", orcid |-> "",
            quality_grade |-> "research", prefers_community_taxon |-> TRUE,
            taxon |-> <<1, 2>>, community_taxon |-> <<1, 4>>]
      [] observation_id = 4 ->
           [found |-> TRUE, photos |-> {4}, has_user |-> FALSE, user_id |-> 0,
            user_name |-> "", orcid |-> "",
            quality_grade |-> "casual", prefers_community_taxon |-> FALSE,
            taxon |-> <<1, 2>>, community_taxon |-> <<>>]
      [] OTHER ->
           [found |-> FALSE, photos |-> {}, has_user |-> FALSE, user_id |-> 0,
            user_name |-> "", orcid |-> "",
            quality_grade |-> "", prefers_community_taxon |-> FALSE,
            taxon |-> <<>>, community_taxon |-> <<>>]

\* Wikidata items carrying an iNaturalist taxon id (the SPARQL taxa query).
WikidataTaxa(taxa_id) ==
    CASE taxa_id = 2 -> {"Q_taxon2"}
      [] taxa_id = 4 -> {"Q_taxon4a", "Q_taxon4b"}
      [] taxa_id = 5 -> {"Q_taxon5"}
      [] OTHER -> {}

\* Wikidata items carrying an iNaturalist user id (the SPARQL user query).
WikidataUsers(user_id) ==
    CASE user_id = 11 -> {"Q_ann"}
      [] user_id = 13 -> {"Q_cy", "Q_cyrus"}
      [] OTHER -> {}

\* The decimal number a template value spells, 0 if it spells none.
NumberOf(text) ==
    CASE text.s = "1" -> 1 [] text.s = "2" -> 2 [] text.s = "3" -> 3
      [] text.s = "4" -> 4 [] OTHER -> 0

\* re.match(r'https://www.inaturalist.org/photos/(\d+)', photo_url): group(1), 0 for None.
INatPhotoUrlMatch(photo_url) ==
    IF photo_url.pad THEN 0
    ELSE CASE photo_url.s = "https://www.inaturalist.org/photos/1" -> 1
           [] photo_url.s = "https://www.inaturalist.org/photos/2" -> 2
           [] photo_url.s = "https://www.inaturalist.org/photos/4" -> 4
           [] OTHER -> 0

\* INaturalistBot.skip_page
INaturalistBot_skip_page(mid) == RedisKey(mid) \in redis \/ mid \in edited

\* Whether taxa_id is a key of the taxa cache, and the item cached for it.
TaxaCached(map, taxa_id) == \E e \in map : e[1] = taxa_id

TaxaItem(map, taxa_id) == (CHOOSE e \in map : e[1] = taxa_id)[2]

\* The loop, were it to go on to the coarser ancestors after an id with several items.
RECURSIVE TaxaLoop_past_ambiguous(_, _, _)
TaxaLoop_past_ambiguous(b, ancestor_ids, i) ==
    IF i = 0 THEN b
    ELSE LET taxa_id == ancestor_ids[i]
         IN  IF TaxaCached(b.taxa, taxa_id)
             THEN [b EXCEPT !.photo.depicts = TaxaItem(b.taxa, taxa_id)]
             ELSE LET q == [Emit(b, "sparql.taxa") EXCEPT !.lookups = Append(@, taxa_id)]
                      items == platform.taxa[taxa_id]
                  IN  IF Cardinality(items) # 1
                      THEN TaxaLoop_past_ambiguous(q, ancestor_ids, i - 1)
                      ELSE LET item == CHOOSE x \in items : TRUE
                           IN  [q EXCEPT !.taxa = @ \cup {<<taxa_id, item>>},
                                         !.photo.depicts = item]

\* The loop, were it to query Wikidata without consulting the cache.
RECURSIVE TaxaLoop_uncached(_, _, _)
TaxaLoop_uncached(b, ancestor_ids, i) ==
    IF i = 0 THEN b
    ELSE LET taxa_id == ancestor_ids[i]
             q == [Emit(b, "sparql.taxa") EXCEPT !.lookups = Append(@, taxa_id)]
             items == platform.taxa[taxa_id]
         IN  IF Cardinality(items) = 0
             THEN TaxaLoop_uncached(q, ancestor_ids, i - 1)
             ELSE IF Cardinality(items) > 1
                  THEN q
                  ELSE LET item == CHOOSE x \in items : TRUE
                       IN  [q EXCEPT !.taxa = @ \cup {<<taxa_id, item>>},
                                     !.photo.depicts = item]

\* The loop of determine_taxa over reversed(ancestor_ids), from position i down.
RECURSIVE TaxaLoop(_, _, _)
TaxaLoop(b, ancestor_ids, i) ==
    IF i = 0 THEN b
    ELSE LET taxa_id == ancestor_ids[i]
         IN  IF TaxaCached(b.taxa, taxa_id)
             THEN [b EXCEPT !.photo.depicts = TaxaItem(b.taxa, taxa_id)]
             ELSE LET q == [Emit(b, "sparql.taxa") EXCEPT !.lookups = Append(@, taxa_id)]
                      items == platform.taxa[taxa_id]
                  IN  IF Cardinality(items) = 0
                      THEN TaxaLoop(q, ancestor_ids, i - 1)
                      ELSE IF Cardinality(items) > 1
                           THEN q
                           ELSE LET item == CHOOSE x \in items : TRUE
                                IN  [q EXCEPT !.taxa = @ \cup {<<taxa_id, item>>},
                                              !.photo.depicts = item]

\* INaturalistBot.determine_taxa
determine_taxa(b, observation) ==
    IF observation.quality_grade # "research"
    THEN b
    ELSE LET taxa == IF observation.prefers_community_taxon
                     THEN observation.community_taxon
                     ELSE observation.taxon
         IN  TaxaLoop(b, taxa, Len(taxa))

\* INaturalistBot.fetch_observation_data.  fetch_error: the HTTP call raises.
fetch_observation_data(b, wikicode, fetch_error) ==
    LET r1 == retrieve_template_data(b, wikicode, {"iNaturalist", "inaturalist"}, <<"id", "1">>)
        observation_id == r1.data
    IN  IF observation_id = NoText THEN r1.b
        ELSE
    LET r2 == retrieve_template_data(r1.b, wikicode,
                                     {"iNaturalistReview", "iNaturalistreview"}, <<"sourceurl">>)
        photo_url == r2.data
    IN  IF photo_url = NoText THEN r2.b
        ELSE
    LET matches == INatPhotoUrlMatch(photo_url)
    IN  IF matches = 0 THEN RedisSet(r2.b, r2.b.redis_key)
        ELSE
    LET b3 == Emit([r2.b EXCEPT !.photo = [id |-> matches,
                                           observation_id |-> NumberOf(observation_id),
                                           has_creator |-> FALSE, creator_id |-> 0,
                                           creator_name |-> "", creator_orcid |-> "",
                                           depicts |-> ""]],
                   "fetch")
        observation == platform.observations[NumberOf(observation_id)]
    IN  IF fetch_error \/ ~observation.found
        THEN RedisSet([b3 EXCEPT !.fetch = IF fetch_error THEN "error" ELSE "notfound"],
                      b3.redis_key)
        ELSE
    LET b4 == [b3 EXCEPT !.fetch = "ok"]
    IN  IF b4.photo.id \notin observation.photos
        THEN RedisSet([b4 EXCEPT !.fetch = "invalid"], b4.redis_key)
        ELSE
    LET b5 == IF observation.has_user
              THEN [b4 EXCEPT !.photo.has_creator = TRUE,
                              !.photo.creator_id = observation.user_id,
                              !.photo.creator_name = observation.user_name,
                              !.photo.creator_orcid = observation.orcid]
              ELSE b4
    IN  determine_taxa(b5, observation)

\* The lookup, were it to take an item whenever any is found.
find_creator_wikidata_item_any(user_id) ==
    LET items == platform.users[user_id]
    IN  IF items # {} THEN CHOOSE x \in items : TRUE ELSE ""

\* INaturalistBot.find_creator_wikidata_item: the item, "" for None.
find_creator_wikidata_item(user_id) ==
    LET items == platform.users[user_id]
    IN  IF Cardinality(items) = 1 THEN CHOOSE x \in items : TRUE ELSE ""

\* BaseBot.create_creator_claim with INaturalistBot.hook_creator_target and
\* hook_creator_claim (url is not passed by the caller).
create_creator_claim(b, author_name_string) ==
    IF HasProp(b.existing_claims, "Creator")
    THEN b
    ELSE LET q == Emit(b, "sparql.user")
             creator_item == find_creator_wikidata_item(q.photo.creator_id)
             c1 == IF creator_item # ""
                   THEN setTarget(Claim("Creator"), creator_item, <<>>)
                   ELSE setSnakType(Claim("Creator"), "somevalue")
             c2 == IF author_name_string # ""
                   THEN addQualifier(c1, Qualifier("AuthorNameString", author_name_string, <<>>))
                   ELSE c1
             c3 == addQualifier(c2, Qualifier("INaturalistUserId", "", <<q.photo.creator_id>>))
             c4 == IF q.photo.creator_orcid # ""
                   THEN addQualifier(c3, Qualifier("ORCID", q.photo.creator_orcid, <<>>))
                   ELSE c3
         IN  Append_new_claims(q, c4)

\* INaturalistBot.treat_page
INaturalistBot_treat_page(b0, mid, page, fetch_error, submit_result) ==
    LET b1 == BaseBot_treat_page([b0 EXCEPT !.photo = [id |-> 0]], mid)
        r == retrieve_template_data(b1, page.templates,
                                    {"iNaturalistReview", "iNaturalistreview"}, <<"status">>)
        status == r.data
    IN  IF status = NoText THEN Return(r.b, "rejected")
        ELSE IF status \notin {T("pass"), T("pass-change")}
        THEN Return(RedisSet(r.b, r.b.redis_key), "rejected")
        ELSE
    LET b2 == fetch_observation_data(fetch_claims(r.b), page.templates, fetch_error)
    IN  IF b2.photo.id = 0 THEN Return(b2, "rejected")
        ELSE
    LET b3 == create_id_claim(b2, "INaturalistPhotoId", b2.photo.id)
        b4 == create_id_claim(b3, "INaturalistObservationId", b2.photo.observation_id)
        b5 == create_source_claim(b4, b2.photo.id, "iNaturalist")
        b6 == create_depicts_claim(b5, b2.photo.depicts)
        b7 == IF b2.photo.has_creator
              THEN create_creator_claim(b6, b2.photo.creator_name)
              ELSE b6
    IN  save(b7, submit_result)

-----------------------------------------------------------------------------
(* PortableAntiquitiesSchemeBot (pas.py)                                   *)

\* What finds.org.uk holds, by image id: the record's own id, its creation date
\* (<<>>: no "created" field) and the SHA-1 of the image file.  `found` FALSE
\* makes ["image"][0] raise.
PASImage(image_id) ==
    CASE image_id = 1 -> [found |-> TRUE, id |-> 1, created |-> <<2020, 1, 2>>, sha1 |-> "h1"]
      [] image_id = 2 -> [found |-> TRUE, id |-> 9, created |-> <<2021, 3, 4>>, sha1 |-> "h2"]
      [] image_id = 3 -> [found |-> TRUE, id |-> 3, created |-> <<>>, sha1 |-> "h3"]
      [] OTHER -> [found |-> FALSE, id |-> 0, created |-> <<>>, sha1 |-> ""]

\* re.match over PortableAntiquitiesSchemeBot.res: group(1) of the first
\* expression that matches, 0 when none does.
PASUrlMatch(url) ==
    IF url.pad THEN 0
    ELSE CASE url.s = "https://finds.org.uk/database/ajax/download/id/1" -> 1
           [] url.s = "https://finds.org.uk/database/images/image/id/1/recordtype/artefacts" -> 1
           [] url.s = "https://finds.org.uk/database/ajax/download/id/2" -> 2
           [] url.s = "https://finds.org.uk/database/ajax/download/id/3" -> 3
           [] url.s = "https://finds.org.uk/database/ajax/download/id/5" -> 5
           [] OTHER -> 0

\* The loop over links calling find_matches(link.url.strip_code().strip()):
\* the image ids found.
find_matches(links) ==
    {PASUrlMatch(strip(links[i])) : i \in DOMAIN links} \ {0}

\* BaseBot.get_file_hash: [b, hash]; on an exception the hash stays unset and
\* "" is returned.
get_file_hash(b, page, hash_error) ==
    IF b.hash # "" THEN [b |-> b, hash |-> b.hash]
    ELSE LET q == Emit(b, "imageinfo")
         IN  IF hash_error THEN [b |-> q, hash |-> ""]
             ELSE [b |-> [q EXCEPT !.hash = page.sha1], hash |-> page.sha1]

\* treat_page of the archival-image bot, were it not to compare the hash of the
\* downloaded image with the hash of the file.
PortableAntiquitiesSchemeBot_treat_page_unhashed(b0, mid, page, failure, submit_result) ==
    LET b1 == BaseBot_treat_page(b0, mid)
        image_ids == find_matches(page.links)
    IN  IF Cardinality(image_ids) # 1
        THEN Return(RedisSet(b1, b1.redis_key), "rejected")
        ELSE
    LET image_id == CHOOSE i \in image_ids : TRUE
        b2 == Emit(b1, "fetch")
        image_json == PASImage(image_id)
    IN  IF failure = "fetch" \/ ~image_json.found
        THEN Return(RedisSet([b2 EXCEPT !.fetch = IF failure = "fetch"
                                                  THEN "error" ELSE "notfound"],
                             b2.redis_key), "rejected")
        ELSE IF image_json.id # image_id
        THEN Return(RedisSet([b2 EXCEPT !.fetch = "invalid"], b2.redis_key), "rejected")
        ELSE
    LET b3 == Emit(b2, "download")
    IN  IF failure = "download"
        THEN Return(RedisSet([b3 EXCEPT !.fetch = "error"], b3.redis_key), "rejected")
        ELSE
    LET h == get_file_hash(b3, page, failure = "hash")
        b4 == [h.b EXCEPT !.fetch = "ok"]
        b5 == create_id_claim(b4, "PortableAntiquitiesSchemeImageID", image_id)
        b6 == create_published_in_claim(b5, "PortableAntiquitiesSchemeDatabase",
                                        image_json.created)
    IN  save(b6, submit_result)

\* PortableAntiquitiesSchemeBot.treat_page.  failure names the external call
\* that raises: "fetch" (the image record), "download" (the image file),
\* "hash" (the imageinfo query), or "none".
PortableAntiquitiesSchemeBot_treat_page(b0, mid, page, failure, submit_result) ==
    LET b1 == BaseBot_treat_page(b0, mid)
        image_ids == find_matches(page.links)
    IN  IF Cardinality(image_ids) # 1
        THEN Return(RedisSet(b1, b1.redis_key), "rejected")
        ELSE
    LET image_id == CHOOSE i \in image_ids : TRUE
        b2 == Emit(b1, "fetch")
        image_json == PASImage(image_id)
    IN  IF failure = "fetch" \/ ~image_json.found
        THEN Return(RedisSet([b2 EXCEPT !.fetch = IF failure = "fetch"
                                                  THEN "error" ELSE "notfound"],
                             b2.redis_key), "rejected")
        ELSE IF image_json.id # image_id
        THEN Return(RedisSet([b2 EXCEPT !.fetch = "invalid"], b2.redis_key), "rejected")
        ELSE
    LET b3 == Emit(b2, "download")
    IN  IF failure = "download"
        THEN Return(RedisSet([b3 EXCEPT !.fetch = "error"], b3.redis_key), "rejected")
        ELSE
    LET h == get_file_hash(b3, page, failure = "hash")
    IN  IF image_json.sha1 # h.hash
        THEN \* get_file_hash is called once more for the warning
             Return(RedisSet([get_file_hash(h.b, page, failure = "hash").b
                                  EXCEPT !.fetch = "invalid"],
                             h.b.redis_key), "rejected")
        ELSE
    LET b4 == [h.b EXCEPT !.fetch = "ok"]
        b5 == create_id_claim(b4, "PortableAntiquitiesSchemeImageID", image_id)
        b6 == create_published_in_claim(b5, "PortableAntiquitiesSchemeDatabase",
                                        image_json.created)
    IN  save(b6, submit_result)

-----------------------------------------------------------------------------
(* FlickrBot (flickr.py)                                                   *)

\* What the Flickr API holds, by photo id.  state: "public", "private" or
\* "notfound".  Coordinates are in tenths of a degree.  has_owner / has_location /
\* has_date_taken FALSE model None.
FlickrPhoto(photo_id) ==
    CASE photo_id = 1 ->
           [state |-> "public", id |-> 1,
            has_owner |-> TRUE, owner_id |-> 21, realname |-> Padded("Cat Lee"),
            username |-> T("cat1"), profile_url |-> 21,
            has_location |-> TRUE, latitude |-> 515, longitude |-> -1, accuracy |-> 10,
            has_date_taken |-> TRUE, granularity |-> "year", taken |-> <<2019, 6, 7>>,
            date_posted |-> <<2020, 2, 3>>]
      [] photo_id = 2 ->
           [state |-> "private", id |-> 2,
            has_owner |-> FALSE, owner_id |-> 0, realname |-> T(""), username |-> T(""),
            profile_url |-> 0,
            has_location |-> FALSE, latitude |-> 0, longitude |-> 0, accuracy |-> 0,
            has_date_taken |-> FALSE, granularity |-> "", taken |-> <<>>,
            date_posted |-> <<>>]
      [] photo_id = 4 ->
           [state |-> "public", id |-> 4,
            has_owner |-> TRUE, owner_id |-> 24, realname |-> T(""),
            username |-> T("dan4"), profile_url |-> 24,
            has_location |-> TRUE, latitude |-> 0, longitude |-> 0, accuracy |-> 16,
            has_date_taken |-> TRUE, granularity |-> "circa", taken |-> <<1950, 1, 1>>,
            date_posted |-> <<2021, 8, 9>>]
      [] OTHER ->
           [state |-> "notfound", id |-> 0,
            has_owner |-> FALSE, owner_id |-> 0, realname |-> T(""), username |-> T(""),
            profile_url |-> 0,
            has_location |-> FALSE, latitude |-> 0, longitude |-> 0, accuracy |-> 0,
            has_date_taken |-> FALSE, granularity |-> "", taken |-> <<>>,
            date_posted |-> <<>>]

\* parse_flickr_url: the kind of page a Flickr URL names, and its photo id.
parse_flickr_url(url) ==
    CASE url = T("https://www.flickr.com/photos/cat1/1") -> [type |-> "single_photo", photo_id |-> 1]
      [] url = T("https://www.flickr.com/photos/bob2/2") -> [type |-> "single_photo", photo_id |-> 2]
      [] url = T("https://www.flickr.com/photos/eve3/3") -> [type |-> "single_photo", photo_id |-> 3]
      [] url = T("https://www.flickr.com/photos/dan4/4") -> [type |-> "single_photo", photo_id |-> 4]
      [] OTHER -> [type |-> "album", photo_id |-> 0]

\* Variant of the table with the entries of levels 11 and 12 exchanged.
wikidata_precision_unsorted(accuracy) ==
    CASE accuracy = 16 -> 10000
      [] accuracy \in {14, 15} -> 27778
      [] accuracy \in {11, 13} -> 100000
      [] accuracy = 12 -> 277778
      [] accuracy \in {7, 8, 9, 10} -> 1000000
      [] accuracy = 6 -> 10000000
      [] accuracy \in {4, 5} -> 16666667
      [] accuracy \in {1, 2, 3} -> 100000000
      [] OTHER -> 0

\* The fixed table of create_location_claim: Flickr accuracy -> Wikidata
\* precision, in units of 1e-9 degree; 0 models the KeyError.
wikidata_precision(accuracy) ==
    CASE accuracy = 16 -> 10000
      [] accuracy \in {14, 15} -> 27778
      [] accuracy \in {12, 13} -> 100000
      [] accuracy = 11 -> 277778
      [] accuracy \in {7, 8, 9, 10} -> 1000000
      [] accuracy = 6 -> 10000000
      [] accuracy \in {4, 5} -> 16666667
      [] accuracy \in {1, 2, 3} -> 100000000
      [] OTHER -> 0

\* Variant of precision_map that gives "circa" month precision.
precision_map_circa_month(granularity) ==
    CASE granularity = "second" -> PRECISION_day
      [] granularity = "month" -> PRECISION_month
      [] granularity = "year" -> PRECISION_year
      [] granularity = "circa" -> PRECISION_month
      [] OTHER -> 0

\* precision_map of FlickrBot.create_inception_claim; 0: not in the map.
precision_map(granularity) ==
    CASE granularity = "second" -> PRECISION_day
      [] granularity = "month" -> PRECISION_month
      [] granularity = "year" -> PRECISION_year
      [] granularity = "circa" -> PRECISION_year
      [] OTHER -> 0

\* get_flickr_photo, were it to call the Flickr API without consulting the
\* photo key.
get_flickr_photo_uncached(b, flickr_photo_id, fetch_error) ==
    LET q == Emit(Emit(b, "redis.get.photo"), "fetch")
        photo == platform.flickr[flickr_photo_id]
    IN  IF fetch_error
        THEN [b |-> Return([q EXCEPT !.fetch = "error"], "crash"), photo |-> FlickrPhoto(0)]
        ELSE IF photo.state # "public"
        THEN [b |-> RedisSet([q EXCEPT !.fetch = photo.state], PhotoKey(flickr_photo_id)),
              photo |-> FlickrPhoto(0)]
        ELSE [b |-> [q EXCEPT !.fetch = "ok"], photo |-> photo]

\* FlickrBot.get_flickr_photo: [b, photo]; photo.state # "public" models None.
\* An error other than private / not found reaches time.sleep(60) in the except
\* clause; flickr.py does not import `time`, so the NameError leaves the method.
get_flickr_photo(b, flickr_photo_id, fetch_error) ==
    IF PhotoKey(flickr_photo_id) \in b.redis
    THEN [b |-> Emit(b, "redis.get.photo"), photo |-> FlickrPhoto(0)]
    ELSE LET q == Emit(Emit(b, "redis.get.photo"), "fetch")
             photo == platform.flickr[flickr_photo_id]
         IN  IF fetch_error
             THEN [b |-> Return([q EXCEPT !.fetch = "error"], "crash"), photo |-> FlickrPhoto(0)]
             ELSE IF photo.state # "public"
             THEN [b |-> RedisSet([q EXCEPT !.fetch = photo.state], PhotoKey(flickr_photo_id)),
                   photo |-> FlickrPhoto(0)]
             ELSE [b |-> [q EXCEPT !.fetch = "ok"], photo |-> photo]

\* FlickrBot.create_id_claim
FlickrBot_create_id_claim(b, flickr_photo_id) ==
    IF HasProp(b.existing_claims, "FlickrPhotoId")
    THEN b
    ELSE Append_new_claims(b, setTarget(Claim("FlickrPhotoId"), "", <<flickr_photo_id>>))

\* FlickrBot.create_creator_claim
FlickrBot_create_creator_claim(b, photo) ==
    IF HasProp(b.existing_claims, "Creator") \/ ~photo.has_owner
    THEN b
    ELSE LET author_name == strip(IF photo.realname.s # "" THEN photo.realname
                                                         ELSE photo.username)
             c1 == setSnakType(Claim("Creator"), "somevalue")
             c2 == addQualifier(c1, Qualifier("AuthorName", author_name.s, <<>>))
             c3 == addQualifier(c2, Qualifier("Url", "", <<photo.profile_url>>))
             c4 == addQualifier(c3, Qualifier("FlickrUserId", "", <<photo.owner_id>>))
         IN  Append_new_claims(b, c4)

\* Variant of create_location_claim without the null-coordinates test.
create_location_claim_keeps_null(b, photo) ==
    IF HasProp(b.existing_claims, "CoordinatesOfThePointOfView") THEN b
    ELSE IF ~photo.has_location THEN b
    ELSE IF wikidata_precision(photo.accuracy) = 0 THEN b
    ELSE Append_new_claims(b,
             setTarget(Claim("CoordinatesOfThePointOfView"), "",
                       <<photo.latitude, photo.longitude, wikidata_precision(photo.accuracy)>>))

\* Variant of create_location_claim in which an accuracy outside the table
\* discards what was built so far.
create_location_claim_aborts(b, photo) ==
    IF HasProp(b.existing_claims, "CoordinatesOfThePointOfView") THEN b
    ELSE IF ~photo.has_location THEN b
    ELSE IF photo.latitude = 0 /\ photo.longitude = 0 THEN b
    ELSE IF wikidata_precision(photo.accuracy) = 0 THEN [b EXCEPT !.new_claims = <<>>]
    ELSE Append_new_claims(b,
             setTarget(Claim("CoordinatesOfThePointOfView"), "",
                       <<photo.latitude, photo.longitude, wikidata_precision(photo.accuracy)>>))

\* FlickrBot.create_location_claim
create_location_claim(b, photo) ==
    IF HasProp(b.existing_claims, "CoordinatesOfThePointOfView") THEN b
    ELSE IF ~photo.has_location THEN b
    ELSE IF photo.latitude = 0 /\ photo.longitude = 0 THEN b
    ELSE IF wikidata_precision(photo.accuracy) = 0 THEN b
    ELSE Append_new_claims(b,
             setTarget(Claim("CoordinatesOfThePointOfView"), "",
                       <<photo.latitude, photo.longitude, wikidata_precision(photo.accuracy)>>))

\* FlickrBot.create_inception_claim
FlickrBot_create_inception_claim(b, photo) ==
    IF HasProp(b.existing_claims, "Inception") \/ ~photo.has_date_taken THEN b
    ELSE IF precision_map(photo.granularity) = 0 THEN b
    ELSE LET precision == precision_map(photo.granularity)
             year == photo.taken[1]
             month == IF precision < PRECISION_month THEN 0 ELSE photo.taken[2]
             day == IF precision < PRECISION_day THEN 0 ELSE photo.taken[3]
             claim == setTarget(Claim("Inception"), "", <<year, month, day, precision>>)
             circa == IF photo.granularity = "circa"
                      THEN addQualifier(claim, Qualifier("SourcingCircumstances", "Circa", <<>>))
                      ELSE claim
         IN  Append_new_claims(b, circa)

\* The publication statement, were it built without its date qualifier.
FlickrBot_create_published_in_claim_undated(b, date_posted) ==
    IF HasProp(b.existing_claims, "PublishedIn")
    THEN b
    ELSE Append_new_claims(b, setTarget(Claim("PublishedIn"), "Flickr", <<>>))

\* FlickrBot.create_published_in_claim
FlickrBot_create_published_in_claim(b, date_posted) ==
    IF HasProp(b.existing_claims, "PublishedIn")
    THEN b
    ELSE Append_new_claims(b,
             addQualifier(setTarget(Claim("PublishedIn"), "Flickr", <<>>),
                          Qualifier("PublicationDate", "", date_posted \o <<PRECISION_day>>)))

\* Templates of the page named exactly `name` (t.name == name, no strip).
TemplatesNamed(wikicode, name) == SelectSeq(wikicode, LAMBDA t : t.name = T(name))

\* FlickrBot.treat_page
FlickrBot_treat_page(b0, mid, page, fetch_error, submit_result) ==
    LET b1 == Emit(BaseBot_treat_page(b0, mid), "redis.get")
        redis_key == RedisKey(mid)
    IN  IF redis_key \in b1.redis THEN Return(b1, "skipped")
        ELSE IF "Flickr images reviewed by FlickreviewR 2" \notin page.categories
        THEN Return(RedisSet(b1, redis_key), "rejected")
        ELSE
    LET flickr_review == TemplatesNamed(page.templates, "FlickreviewR")
        none == Extracted(b1, {"FlickreviewR"}, <<"sourceurl">>, NoText)
    IN  IF Len(flickr_review) # 1 THEN Return(RedisSet(none, redis_key), "rejected")
        ELSE
    LET flickr_url == {p \in flickr_review[1].params : p[1] = "sourceurl"}
    IN  IF Cardinality(flickr_url) # 1 THEN Return(RedisSet(none, redis_key), "rejected")
        ELSE
    LET url == (CHOOSE p \in flickr_url : TRUE)[2]
        b1u == Extracted(b1, {"FlickreviewR"}, <<"sourceurl">>, url)
        flickr_id == parse_flickr_url(url)
    IN  IF flickr_id.type # "single_photo" THEN Return(RedisSet(b1u, redis_key), "rejected")
        ELSE
    LET r == get_flickr_photo(b1u, flickr_id.photo_id, fetch_error)
        flickr_photo == r.photo
    IN  IF r.b.status = "crash" THEN r.b
        ELSE IF flickr_photo.state # "public"
        THEN Return(RedisSet(r.b, redis_key), "rejected")
        ELSE
    LET b2 == fetch_claims(r.b)
        b3 == FlickrBot_create_id_claim(b2, flickr_photo.id)
        b4 == FlickrBot_create_creator_claim(b3, flickr_photo)
        b5 == create_source_claim(b4, flickr_photo.id, "Flickr")
        b6 == create_location_claim(b5, flickr_photo)
        b7 == FlickrBot_create_inception_claim(b6, flickr_photo)
        b8 == FlickrBot_create_published_in_claim(b7, flickr_photo.date_posted)
    IN  save(b8, submit_result)

-----------------------------------------------------------------------------
(* YouTubeBot (youtube.py)                                                 *)

\* What the YouTube API holds, by video id.  language: the ISO 639-1 code the
\* language detector gives the title, "" when it gives none.  has_channel:
\* the channel query has exactly one result.
YouTubeVideo(video_id) ==
    CASE video_id = 1 ->
           [totalResults |-> 1, title |-> "A walk", language |-> "en",
            publishedAt |-> <<2021, 5, 6>>, channelId |-> 31, channelTitle |-> "Walks",
            has_channel |-> TRUE, customUrl |-> "walks"]
      [] video_id = 2 ->
           [totalResults |-> 1, title |-> "???", language |-> "",
            publishedAt |-> <<2022, 7, 8>>, channelId |-> 32, channelTitle |-> "Talks",
            has_channel |-> FALSE, customUrl |-> ""]
      [] OTHER ->
           [totalResults |-> 0, title |-> "", language |-> "",
            publishedAt |-> <<>>, channelId |-> 0, channelTitle |-> "",
            has_channel |-> FALSE, customUrl |-> ""]

\* YouTubeBot.create_youtube_video_id_claim
create_youtube_video_id_claim(b, videoId) ==
    IF HasProp(b.existing_claims, "YouTubeVideoId")
    THEN b
    ELSE Append_new_claims(b, setTarget(Claim("YouTubeVideoId"), "", <<videoId>>))

\* YouTubeBot.create_published_in_claim
YouTubeBot_create_published_in_claim(b, date) ==
    IF HasProp(b.existing_claims, "PublishedIn")
    THEN b
    ELSE Append_new_claims(b,
             addQualifier(setTarget(Claim("PublishedIn"), "YouTube", <<>>),
                          Qualifier("PublicationDate", "", date \o <<PRECISION_day>>)))

\* YouTubeBot.create_creator_claim; channelHandle = "" models None.
YouTubeBot_create_creator_claim(b, channelTitle, channelHandle, channelId) ==
    IF HasProp(b.existing_claims, "Creator")
    THEN b
    ELSE LET c1 == setSnakType(Claim("Creator"), "somevalue")
             c2 == addQualifier(c1, Qualifier("AuthorNameString", channelTitle, <<>>))
             c3 == IF channelHandle # ""
                   THEN addQualifier(c2, Qualifier("YouTubeHandle", channelHandle, <<>>))
                   ELSE c2
             c4 == addQualifier(c3, Qualifier("YouTubeChannelId", "", <<channelId>>))
         IN  Append_new_claims(b, c4)

\* YouTubeBot.create_source_claim
YouTubeBot_create_source_claim(b, source) ==
    IF HasProp(b.existing_claims, "SourceOfFile")
    THEN b
    ELSE create_source_claim(b, source, "YouTube")

\* `property not in claim.qualifiers`
LacksQualifier(claim, property) == \A q \in claim.quals : q.prop # property

\* The completion pass, were it to put the statement into the delta whether or
\* not a qualifier was added.
process_copyright_license_claim_always(b, video) ==
    IF Cardinality(ClaimsOf(b.existing_claims, "CopyrightLicense")) # 1
    THEN b
    ELSE LET claim == CHOOSE c \in b.existing_claims : c.prop = "CopyrightLicense"
             titled == IF LacksQualifier(claim, "Title") /\ video.language # ""
                       THEN addQualifier(claim, Qualifier("Title", video.title, <<>>))
                       ELSE claim
             authored == IF LacksQualifier(titled, "AuthorNameString")
                         THEN addQualifier(titled,
                                  Qualifier("AuthorNameString", video.channelTitle, <<>>))
                         ELSE titled
             q == [b EXCEPT !.existing_claims = (@ \ {claim}) \cup {authored}]
         IN  Append_new_claims(q, authored)

\* YouTubeBot.process_copyright_license_claim.  The claim is an object of
\* existing_claims: the qualifiers are added to it in place.
process_copyright_license_claim(b, video) ==
    IF Cardinality(ClaimsOf(b.existing_claims, "CopyrightLicense")) # 1
    THEN b
    ELSE LET claim == CHOOSE c \in b.existing_claims : c.prop = "CopyrightLicense"
             titled == IF LacksQualifier(claim, "Title") /\ video.language # ""
                       THEN addQualifier(claim, Qualifier("Title", video.title, <<>>))
                       ELSE claim
             authored == IF LacksQualifier(titled, "AuthorNameString")
                         THEN addQualifier(titled,
                                  Qualifier("AuthorNameString", video.channelTitle, <<>>))
                         ELSE titled
             edited_ == authored # claim
             q == [b EXCEPT !.existing_claims = (@ \ {claim}) \cup {authored}]
         IN  IF edited_ THEN Append_new_claims(q, authored) ELSE q

\* YouTubeBot.treat_page.  failure: "fetch" (videos().list raises HttpError),
\* "channel" (channels().list raises: nothing catches it), or "none".
YouTubeBot_treat_page(b0, mid, page, failure, submit_result) ==
    LET youtube_templates == TemplatesNamed(page.templates, "YouTubeReview")
    IN  IF youtube_templates = <<>> THEN Return(b0, "rejected")
        ELSE IF ~has(youtube_templates[1], "id") THEN Return(b0, "rejected")
        ELSE
    LET youtube_id == NumberOf(get(youtube_templates[1], "id"))
        b1 == Emit(b0, "fetch")
        video == YouTubeVideo(youtube_id)
    IN  IF failure = "fetch" THEN Return([b1 EXCEPT !.fetch = "error"], "rejected")
        ELSE IF video.totalResults = 0
        THEN Return([b1 EXCEPT !.fetch = "notfound"], "rejected")
        ELSE
    LET b2 == Emit([b1 EXCEPT !.fetch = "ok"], "fetch.channel")
    IN  IF failure = "channel" THEN Return([b2 EXCEPT !.fetch = "error"], "crash")
        ELSE
    LET channel_handle == IF video.has_channel THEN video.customUrl ELSE ""
        b3 == fetch_claims([b2 EXCEPT !.new_claims = <<>>, !.mid = mid,
                                      !.redis_key = RedisKey(mid)])
        b4 == create_youtube_video_id_claim(b3, youtube_id)
        b5 == YouTubeBot_create_published_in_claim(b4, video.publishedAt)
        b6 == YouTubeBot_create_creator_claim(b5, video.channelTitle, channel_handle,
                                              video.channelId)
        b7 == YouTubeBot_create_source_claim(b6, youtube_id)
        b8 == process_copyright_license_claim(b7, video)
    IN  save(b8, submit_result)

-----------------------------------------------------------------------------
(* UsaceBot (usace.py)                                                     *)

\* parse_date and the "complex date" branch of process_inception_claim, by the
\* text of the date parameter: the date the claim is built from (<<>>: no claim),
\* its precision, and whether the circa qualifier is added.
UsaceDate(date) ==
    CASE date = "2020" -> [time |-> <<2020, 0, 0>>, precision |-> PRECISION_year, circa |-> FALSE]
      [] date = "2020-05" -> [time |-> <<2020, 5, 0>>, precision |-> PRECISION_month, circa |-> FALSE]
      [] date = "2020-05-06" -> [time |-> <<2020, 5, 6>>, precision |-> PRECISION_day, circa |-> FALSE]
      [] date = "{{complex date|ca|2020}}" ->
           [time |-> <<2020, 0, 0>>, precision |-> PRECISION_year, circa |-> TRUE]
      [] OTHER -> [time |-> <<>>, precision |-> 0, circa |-> FALSE]

\* The re.match of process_source_claim on the source parameter.
UsaceSourceMatch(source) ==
    source = "https://usace.contentdm.oclc.org/digital/collection/p16021coll5/id/77"

\* UsaceBot.skip_page
UsaceBot_skip_page(mid) == wikitext[mid].uploader # "CuratorBot"

\* UsaceBot.process_inception_claim with create_inception_claim
process_inception_claim(b, date) ==
    IF HasProp(b.existing_claims, "Inception") THEN b
    ELSE LET d == UsaceDate(date)
         IN  IF d.time = <<>> THEN b
             ELSE LET claim == setTarget(Claim("Inception"), "", d.time \o <<d.precision>>)
                      circa == IF d.circa
                               THEN addQualifier(claim,
                                        Qualifier("SourcingCircumstances", "Circa", <<>>))
                               ELSE claim
                  IN  Append_new_claims(b, circa)

\* UsaceBot.process_source_claim
process_source_claim(b, source) ==
    IF HasProp(b.existing_claims, "SourceOfFile") THEN b
    ELSE IF ~UsaceSourceMatch(source) THEN b
    ELSE Append_new_claims(b,
             addQualifier(
                 addQualifier(setTarget(Claim("SourceOfFile"), "FileAvailableOnInternet", <<>>),
                              Qualifier("DescribedAtUrl", source, <<>>)),
                 Qualifier("Operator", "USACE", <<>>)))

\* UsaceBot.treat_page: its own submission code, no Redis, no dry run.
UsaceBot_treat_page(b0, mid, page, submit_result) ==
    LET photograph == SelectSeq(page.templates,
                                LAMBDA t : t.name.s = "Photograph" \/ t.name.s = "Book")
    IN  IF photograph = <<>> THEN Return(b0, "crash")
        ELSE
    LET has_date == has(photograph[1], "date")
        source == IF has(photograph[1], "source") THEN get(photograph[1], "source").s ELSE ""
        b1 == fetch_claims([b0 EXCEPT !.new_claims = <<>>, !.mid = mid])
        b2 == IF has_date THEN process_inception_claim(b1, get(photograph[1], "date").s) ELSE b1
        b3 == LET q == process_source_claim(b2, source)
              IN  [q EXCEPT !.save_called = TRUE, !.save_at = Len(q.trace)]
    IN  IF b3.new_claims = <<>> THEN Return(b3, "returned")
        ELSE Return([Emit(Emit(b3, "csrf"), "wbeditentity")
                         EXCEPT !.submit = submit_result,
                                !.submitted_to = mid,
                                !.submitted = b3.new_claims],
                    "returned")

-----------------------------------------------------------------------------
(* Pages and knowledge-base content the run starts from.                   *)

Page(templates, links, categories, uploader, sha1) ==
    [templates |-> templates, links |-> links, categories |-> categories,
     uploader |-> uploader, sha1 |-> sha1]

\* A statement the knowledge base already holds.
Existing(id, property) == [Claim(property) EXCEPT !.id = id, !.snak = "value", !.item = "held"]

INatReview(status, sourceurl) ==
    Tpl(T("iNaturalistReview"), {<<"status", status>>, <<"sourceurl", sourceurl>>})

\* Pages of files that may hold structured statements before the first run.
INatDescribedPages ==
    { Page(<<Tpl(T("iNaturalist"), {<<"id", T("1")>>}),
             INatReview(T("pass"), T("https://www.inaturalist.org/photos/1"))>>,
           <<>>, {}, "", ""),
      Page(<<Tpl(T("iNaturalist"), {<<"id", T("2")>>}),
             INatReview(T("pass"), T("https://www.inaturalist.org/photos/2"))>>,
           <<>>, {}, "", "") }

INatPages ==
    INatDescribedPages \cup
    { Page(<<Tpl(Padded("inaturalist"), {<<"1", Padded("4")>>}),
             Tpl(Padded("iNaturalistreview"),
                 {<<"status", Padded("pass-change")>>,
                  <<"sourceurl", Padded("https://www.inaturalist.org/photos/4")>>})>>,
           <<>>, {}, "", ""),
      Page(<<Tpl(T("iNaturalist"), {<<"id", T("1")>>}),
             INatReview(T("fail"), T("https://www.inaturalist.org/photos/1"))>>,
           <<>>, {}, "", ""),
      Page(<<Tpl(T("iNaturalist"), {<<"id", T("1")>>})>>, <<>>, {}, "", ""),
      Page(<<Tpl(T("iNaturalist"), {<<"lang", T("en")>>}),
             INatReview(T("pass"), T("https://www.inaturalist.org/photos/1"))>>,
           <<>>, {}, "", ""),
      Page(<<Tpl(T("iNaturalist"), {<<"id", T("1")>>}),
             INatReview(T("pass"), T("https://example.org/photos/1"))>>,
           <<>>, {}, "", ""),
      Page(<<Tpl(T("iNaturalist"), {<<"id", T("3")>>}),
             INatReview(T("pass"), T("https://www.inaturalist.org/photos/1"))>>,
           <<>>, {}, "", "") }

PASLink(id) ==
    CASE id = 1 -> "https://finds.org.uk/database/ajax/download/id/1"
      [] id = 2 -> "https://finds.org.uk/database/ajax/download/id/2"
      [] id = 3 -> "https://finds.org.uk/database/ajax/download/id/3"
      [] OTHER -> "https://finds.org.uk/database/ajax/download/id/5"

PASDescribedPages ==
    { Page(<<>>, <<Padded(PASLink(1)),
                   T("https://finds.org.uk/database/images/image/id/1/recordtype/artefacts"),
                   T("https://example.org/")>>, {}, "", "h1") }

PASPages ==
    PASDescribedPages \cup
    { Page(<<>>, <<T("https://example.org/")>>, {}, "", "h1"),
      Page(<<>>, <<T(PASLink(1)), T(PASLink(2))>>, {}, "", "h1"),
      Page(<<>>, <<T(PASLink(2))>>, {}, "", "h2"),
      Page(<<>>, <<T(PASLink(3))>>, {}, "", "h3"),
      Page(<<>>, <<T(PASLink(1))>>, {}, "", "other"),
      Page(<<>>, <<T(PASLink(5))>>, {}, "", "h1") }

FlickrPage(categories, templates) == Page(templates, <<>>, categories, "", "")

Reviewed == {"Flickr images reviewed by FlickreviewR 2"}

FlickrReview(url) == <<Tpl(T("FlickreviewR"), {<<"sourceurl", T(url)>>})>>

FlickrDescribedPages ==
    { FlickrPage(Reviewed, FlickrReview("https://www.flickr.com/photos/cat1/1")),
      FlickrPage(Reviewed, FlickrReview("https://www.flickr.com/photos/dan4/4")) }

FlickrPages ==
    FlickrDescribedPages \cup
    { FlickrPage({"Uploaded with UploadWizard"},
                 FlickrReview("https://www.flickr.com/photos/cat1/1")),
      FlickrPage(Reviewed, <<Tpl(Padded("FlickreviewR"),
                                 {<<"sourceurl", T("https://www.flickr.com/photos/cat1/1")>>})>>),
      FlickrPage(Reviewed, <<Tpl(T("FlickreviewR"), {<<"status", T("passed")>>})>>),
      FlickrPage(Reviewed, FlickrReview("https://www.flickr.com/photos/cat1/albums/7")),
      FlickrPage(Reviewed, FlickrReview("https://www.flickr.com/photos/bob2/2")),
      FlickrPage(Reviewed, FlickrReview("https://www.flickr.com/photos/eve3/3")) }

YouTubePage(templates) == Page(templates, <<>>, {}, "", "")

YouTubeDescribedPages ==
    { YouTubePage(<<Tpl(T("YouTubeReview"), {<<"id", T("1")>>})>>),
      YouTubePage(<<Tpl(T("YouTubeReview"), {<<"id", T("2")>>})>>) }

YouTubePages ==
    YouTubeDescribedPages \cup
    { YouTubePage(<<Tpl(T("Information"), {<<"id", T("1")>>})>>),
      YouTubePage(<<Tpl(T("YouTubeReview"), {<<"date", T("2021")>>})>>),
      YouTubePage(<<Tpl(T("YouTubeReview"), {<<"id", T("3")>>})>>) }

UsacePage(uploader, templates) == Page(templates, <<>>, {}, uploader, "")

UsaceUrl == "https://usace.contentdm.oclc.org/digital/collection/p16021coll5/id/77"

UsaceDescribedPages ==
    { UsacePage("CuratorBot", <<Tpl(T("Photograph"), {<<"date", T("2020-05-06")>>,
                                                      <<"source", T(UsaceUrl)>>})>>),
      UsacePage("CuratorBot", <<Tpl(T("Book"), {<<"date", T("{{complex date|ca|2020}}")>>,
                                                <<"source", T("USACE archive")>>})>>) }

UsacePages ==
    UsaceDescribedPages \cup
    { UsacePage("CuratorBot", <<Tpl(T("Information"), {<<"date", T("2020")>>})>>),
      UsacePage("CuratorBot", <<Tpl(T("Photograph"), {<<"author", T("unknown")>>})>>),
      UsacePage("Someone", <<Tpl(T("Photograph"), {<<"date", T("2020")>>})>>),
      UsacePage("CuratorBot", <<Tpl(T("Photograph"), {<<"date", T("last spring")>>,
                                                      <<"source", T(UsaceUrl)>>})>>) }

License(id, quals) == [Existing(id, "CopyrightLicense") EXCEPT !.quals = quals]

Pages(which) ==
    CASE which = "inaturalist" -> INatPages
      [] which = "pas" -> PASPages
      [] which = "flickr" -> FlickrPages
      [] which = "youtube" -> YouTubePages
      [] which = "usace" -> UsacePages
      [] OTHER -> {}

DescribedPages(which) ==
    CASE which = "inaturalist" -> INatDescribedPages
      [] which = "pas" -> PASDescribedPages
      [] which = "flickr" -> FlickrDescribedPages
      [] which = "youtube" -> YouTubeDescribedPages
      [] which = "usace" -> UsaceDescribedPages
      [] OTHER -> {}

Statements(which) ==
    CASE which = "inaturalist" -> { {}, {Existing(1, "Creator"), Existing(2, "INaturalistPhotoId")} }
      [] which = "pas" -> { {}, {Existing(1, "PublishedIn")} }
      [] which = "flickr" -> { {}, {Existing(1, "Creator"), Existing(2, "Inception")} }
      [] which = "youtube" ->
           { {},
             {License(1, {})},
             {License(1, {Qualifier("Title", "Old title", <<>>)}), Existing(2, "SourceOfFile")},
             {License(1, {Qualifier("Title", "Old title", <<>>),
                          Qualifier("AuthorNameString", "Old author", <<>>)})},
             {License(1, {}), License(2, {})} }
      [] which = "usace" -> { {}, {Existing(1, "Inception")} }

\* The ids the tables below are asked for.
PhotoIds == 0..4

TaxaIds == 0..5

UserIds == {0, 11, 12, 13}

\* What the source platforms and Wikidata answer, by id.
Platform ==
    [flickr |-> [id \in PhotoIds |-> FlickrPhoto(id)],
     observations |-> [id \in PhotoIds |-> INatObservation(id)],
     taxa |-> [id \in TaxaIds |-> WikidataTaxa(id)],
     users |-> [id \in UserIds |-> WikidataUsers(id)]]

\* The records a generator can hold: <<page, statements>>.  Statements that
\* exist before the first run are varied for the described pages only.
Inputs(which) ==
    {<<p, {}>> : p \in Pages(which)} \cup (DescribedPages(which) \X Statements(which))


-----------------------------------------------------------------------------
(* The run loop (ExistingPageBot.run, entered from main()).                *)

\* The bot object before its first handler: wiki_properties is None.
NoHandler ==
    [bot |-> "", dry_run |-> FALSE, handler |-> "none", page |-> 0,
     mid |-> 0, redis_key |-> <<"commons", 0>>, existing_claims |-> {}, loaded |-> {},
     new_claims |-> <<>>,
     hash |-> "", photo |-> [id |-> 0], redis |-> {}, taxa |-> {},
     trace |-> <<>>, status |-> "none", fetch |-> "none", fetched |-> 0,
     save_called |-> FALSE, save_at |-> 0, submit |-> "none", submitted_to |-> 0,
     submitted |-> <<>>, extracted |-> <<>>, lookups |-> <<>>]

\* The bot object as a handler for record mid starts: its attributes are those the
\* previous handler left, the per-handler observations are cleared.
Begin(handler, mid) ==
    [last EXCEPT !.bot = bot, !.dry_run = dry_run, !.handler = handler, !.page = mid,
                 !.redis = redis, !.taxa = taxa_wikidata_map,
                 !.trace = <<>>, !.status = "run", !.fetch = "none", !.fetched = 0,
                 !.save_called = FALSE, !.save_at = 0, !.submit = "none", !.submitted_to = 0,
                 !.extracted = <<>>, !.lookups = <<>>,
                 !.submitted = <<>>]

RECURSIVE ApplyEdit(_, _, _)
\* wbeditentity: a claim with a GUID replaces the statement of that GUID, a claim
\* without one is added under a new GUID.
ApplyEdit(statements, claims, i) ==
    IF i > Len(claims) THEN statements
    ELSE LET c == claims[i]
             ids == {e.id : e \in statements}
             new_id == IF ids = {} THEN 1 ELSE 1 + CHOOSE m \in ids : \A n \in ids : n <= m
         IN  IF c.id # 0
             THEN ApplyEdit({e \in statements : e.id # c.id} \cup {c}, claims, i + 1)
             ELSE ApplyEdit(statements \cup {[c EXCEPT !.id = new_id]}, claims, i + 1)

\* The effects of a finished treat_page on the world and on the run.
Finish(b) ==
    /\ last' = b
    /\ redis' = b.redis
    /\ taxa_wikidata_map' = b.taxa
    /\ kb' = IF b.submit = "ok"
             THEN [kb EXCEPT ![b.submitted_to] = ApplyEdit(@, b.submitted, 1)]
             ELSE kb
    /\ edited' = IF b.submit = "ok" THEN edited \cup {b.submitted_to} ELSE edited
    /\ pc' = CASE b.status = "quit" -> "quit"
               [] b.status = "crash" -> "crashed"
               [] OTHER -> "running"
    /\ idx' = idx + 1
    /\ UNCHANGED <<bot, dry_run, run, wikitext, platform>>

\* skip_page of the running bot's class.
skip_page(mid) ==
    CASE bot = "inaturalist" -> INaturalistBot_skip_page(mid)
      [] bot = "usace" -> UsaceBot_skip_page(mid)
      [] OTHER -> BaseBot_skip_page(mid)

Init ==
    /\ bot \in Bots
    /\ dry_run \in (IF bot \in BaseBots THEN BOOLEAN ELSE {FALSE})
    /\ run = 1
    /\ pc = "running"
    /\ idx = 1
    /\ redis = {}
    /\ \E input \in [Records -> Inputs(bot)] :
          /\ wikitext = [r \in Records |-> input[r][1]]
          /\ kb = [r \in Records |-> input[r][2]]
    /\ edited = {}
    /\ taxa_wikidata_map = {}
    /\ platform = Platform
    /\ last = NoHandler

\* The property whose presence excludes a file from the bot's generator
\* ("" for FlickrBot, whose generator walks a category).
GeneratorExcludes(which) ==
    CASE which = "inaturalist" -> "INaturalistPhotoId"
      [] which = "pas" -> "PortableAntiquitiesSchemeImageID"
      [] which = "youtube" -> "YouTubeVideoId"
      [] which = "usace" -> "SourceOfFile"
      [] OTHER -> ""

\* The search behind the generator has indexed the excluded statement of the
\* record: the generator does not yield it and no handler runs for it.
NotYielded ==
    /\ pc = "running"
    /\ idx <= NumRecords
    /\ HasProp(kb[idx], GeneratorExcludes(bot))
    /\ idx' = idx + 1
    /\ UNCHANGED <<bot, dry_run, run, pc, redis, kb, edited, wikitext, taxa_wikidata_map,
                   platform, last>>

\* The framework skips the record: skip_page returned True.
SkipPage ==
    /\ pc = "running"
    /\ idx <= NumRecords
    /\ skip_page(idx)
    /\ last' = Return(IF bot = "usace" THEN Begin("skip_page", idx)
                      ELSE Emit(Begin("skip_page", idx), "redis.exists"),
                      "skipped")
    /\ idx' = idx + 1
    /\ UNCHANGED <<bot, dry_run, run, pc, redis, kb, edited, wikitext, taxa_wikidata_map,
                   platform>>

TreatINaturalist ==
    /\ pc = "running"
    /\ idx <= NumRecords
    /\ bot = "inaturalist"
    /\ ~skip_page(idx)
    /\ \E fetch_error \in BOOLEAN, submit_result \in {"ok", "fail"} :
          Finish(INaturalistBot_treat_page(Begin("treat_page", idx), idx, wikitext[idx],
                                           fetch_error, submit_result))

TreatFlickr ==
    /\ pc = "running"
    /\ idx <= NumRecords
    /\ bot = "flickr"
    /\ ~skip_page(idx)
    /\ \E fetch_error \in BOOLEAN, submit_result \in {"ok", "fail"} :
          Finish(FlickrBot_treat_page(Begin("treat_page", idx), idx, wikitext[idx],
                                      fetch_error, submit_result))

TreatYouTube ==
    /\ pc = "running"
    /\ idx <= NumRecords
    /\ bot = "youtube"
    /\ ~skip_page(idx)
    /\ \E failure \in {"none", "fetch", "channel"}, submit_result \in {"ok", "fail"} :
          Finish(YouTubeBot_treat_page(Begin("treat_page", idx), idx, wikitext[idx],
                                       failure, submit_result))

TreatUsace ==
    /\ pc = "running"
    /\ idx <= NumRecords
    /\ bot = "usace"
    /\ ~skip_page(idx)
    /\ \E submit_result \in {"ok", "fail"} :
          Finish(UsaceBot_treat_page(Begin("treat_page", idx), idx, wikitext[idx],
                                     submit_result))

TreatPAS ==
    /\ pc = "running"
    /\ idx <= NumRecords
    /\ bot = "pas"
    /\ ~skip_page(idx)
    /\ \E failure \in {"none", "fetch", "download", "hash"}, submit_result \in {"ok", "fail"} :
          Finish(PortableAntiquitiesSchemeBot_treat_page(Begin("treat_page", idx), idx,
                                                         wikitext[idx], failure, submit_result))

\* The generator is exhausted: run() returns.
EndRun ==
    /\ pc = "running"
    /\ idx > NumRecords
    /\ pc' = "done"
    /\ UNCHANGED <<bot, dry_run, run, idx, redis, kb, edited, wikitext, taxa_wikidata_map,
                   platform, last>>

\* main(): a new process constructs the bot and runs it again; Redis and the
\* knowledge base persist, the bot object and its class attributes do not.
NewRun ==
    /\ pc # "running"
    /\ run < MaxRuns
    /\ run' = run + 1
    /\ pc' = "running"
    /\ idx' = 1
    /\ dry_run' \in (IF bot \in BaseBots THEN BOOLEAN ELSE {FALSE})
    /\ taxa_wikidata_map' = {}
    /\ last' = NoHandler
    /\ UNCHANGED <<bot, redis, kb, edited, wikitext, platform>>

Next ==
    \/ NotYielded
    \/ SkipPage
    \/ TreatINaturalist
    \/ TreatPAS
    \/ TreatFlickr
    \/ TreatYouTube
    \/ TreatUsace
    \/ EndRun
    \/ NewRun

Spec == Init /\ [][Next]_vars

-----------------------------------------------------------------------------
(* FlickrBot over the metadata a photo can carry: every record is the same *)
(* reviewed page of photo 1, and what the Flickr API answers for photo 1   *)
(* ranges over coordinates, accuracy levels and date granularities.        *)

Accuracies == 0..17

Granularities == {"second", "month", "year", "circa", "decade"}

MetadataPhotos ==
    {[FlickrPhoto(1) EXCEPT !.latitude = la, !.longitude = lo,
                            !.accuracy = a, !.granularity = g] :
        la \in {0, 515}, lo \in {0, -1}, a \in Accuracies, g \in Granularities}

FlickrInit ==
    /\ bot = "flickr"
    /\ dry_run \in BOOLEAN
    /\ run = 1
    /\ pc = "running"
    /\ idx = 1
    /\ redis = {}
    /\ kb = [r \in Records |-> {}]
    /\ edited = {}
    /\ wikitext = [r \in Records |->
                      FlickrPage(Reviewed, FlickrReview("https://www.flickr.com/photos/cat1/1"))]
    /\ taxa_wikidata_map = {}
    /\ platform \in {[Platform EXCEPT !.flickr[1] = photo] : photo \in MetadataPhotos}
    /\ last = NoHandler

FlickrNext ==
    \/ TreatFlickr
    \/ EndRun
    \/ NewRun

FlickrSpec == FlickrInit /\ [][FlickrNext]_vars

-----------------------------------------------------------------------------
(* INaturalistBot over what the platform and Wikidata can answer: every    *)
(* record is a reviewed page of observation 1 or of observation 4, both    *)
(* research grade; the ancestor ids of their taxa and the user of          *)
(* observation 1 range over ids with no, one and several Wikidata items.   *)
(* Observation 4 prefers its community taxon.                              *)

\* Ancestor ids of a taxon, coarsest first.  Of the ids, 1 has no Wikidata
\* item, 2 and 5 have one each and 4 has two.
AncestorLists ==
    {<<>>, <<1>>, <<2>>, <<2, 1>>, <<2, 4>>, <<4, 1>>, <<5, 1>>, <<5, 2, 1>>}

CommunityAncestorLists == {<<2, 5>>, <<4, 2>>}

ResearchPages ==
    { Page(<<Tpl(T("iNaturalist"), {<<"id", T("1")>>}),
             INatReview(T("pass"), T("https://www.inaturalist.org/photos/1"))>>,
           <<>>, {}, "", ""),
      Page(<<Tpl(Padded("inaturalist"), {<<"1", Padded("4")>>}),
             Tpl(Padded("iNaturalistreview"),
                 {<<"status", Padded("pass-change")>>,
                  <<"sourceurl", Padded("https://www.inaturalist.org/photos/4")>>})>>,
           <<>>, {}, "", "") }

INatInit ==
    /\ bot = "inaturalist"
    /\ dry_run = FALSE
    /\ run = 1
    /\ pc = "running"
    /\ idx = 1
    /\ redis = {}
    /\ kb = [r \in Records |-> {}]
    /\ edited = {}
    /\ wikitext \in [Records -> ResearchPages]
    /\ taxa_wikidata_map = {}
    /\ \E taxon1 \in AncestorLists, taxon4 \in CommunityAncestorLists, user_id \in UserIds \ {0} :
          platform = [Platform EXCEPT
                        !.observations[1] = [@ EXCEPT !.taxon = taxon1, !.user_id = user_id],
                        !.observations[4] = [@ EXCEPT !.community_taxon = taxon4,
                                                      !.prefers_community_taxon = TRUE,
                                                      !.quality_grade = "research"]]
    /\ last = NoHandler

INatNext ==
    \/ NotYielded
    \/ SkipPage
    \/ TreatINaturalist
    \/ EndRun
    \/ NewRun

INatSpec == INatInit /\ [][INatNext]_vars

-----------------------------------------------------------------------------
(* Properties.  `last` is the bot object as the most recent handler left it: *)
(* last.loaded is the existing-statement index as fetch_claims populated it, *)
(* last.new_claims the delta, last.trace the external calls in order and     *)
(* last.save_at the length of the trace when the save step was entered.      *)

\* C1: when the save step is reached, no claim of the delta has a property that
\* is present in the existing-statement index as it was loaded, except a
\* re-emitted copyright-license statement: that one carries the GUID of the
\* single loaded license statement, keeps its value, only gains qualifiers,
\* and is the only claim of the delta with that property.
C1_DeltaAvoidsExistingProperties ==
    (last.handler = "treat_page" /\ last.save_called) =>
        \A i \in DOMAIN last.new_claims :
            LET c == last.new_claims[i]
                same == {e \in last.loaded : e.prop = c.prop}
            IN  same # {} =>
                    /\ c.prop = "CopyrightLicense"
                    /\ c.id # 0
                    /\ \E e \in same :
                          /\ same = {e}
                          /\ e.id = c.id
                          /\ e.snak = c.snak /\ e.item = c.item /\ e.num = c.num
                          /\ e.quals \subseteq c.quals
                          /\ e.quals # c.quals
                    /\ \A j \in DOMAIN last.new_claims :
                          last.new_claims[j].prop = c.prop => j = i

\* An iNaturalist record whose loaded statements already hold the photo ID
\* reached the save step with a photo at hand and a non-empty delta.
C1_Witness ==
    /\ last.handler = "treat_page" /\ last.save_called
    /\ last.bot = "inaturalist"
    /\ \E e \in last.loaded : e.prop = "INaturalistPhotoId"
    /\ last.photo.id # 0
    /\ last.new_claims # <<>>

\* C2: a record whose delta was submitted successfully earlier and that is
\* processed again yields an empty delta.
C2_SecondPassEmpty ==
    [][(/\ pc = "running"
        /\ idx \in edited
        /\ last'.handler = "treat_page"
        /\ last'.page = idx)
       => (last'.save_called => last'.new_claims = <<>>)]_vars

\* C3: a record rejected as permanently unsuitable (anything but a transient
\* retrieval error) has its fingerprint key set so that later runs skip it.
C3_RejectionSetsKey ==
    (last.handler = "treat_page" /\ last.status = "rejected" /\ last.fetch # "error")
        => RedisKey(last.page) \in redis

\* C4: a transient retrieval error does not set the record's fingerprint key.
C4_TransientErrorLeavesKey ==
    (last.handler = "treat_page" /\ last.fetch = "error")
        => RedisKey(last.page) \notin redis

\* C5: when the metadata retrieval for a record fails (not found, private,
\* invalid or a transient error) the delta is empty and nothing is submitted.
C5_FetchFailureEmptyDelta ==
    (last.handler = "treat_page" /\ last.fetch \in {"error", "notfound", "private", "invalid"})
        => /\ last.save_called => last.new_claims = <<>>
           /\ last.submit = "none"

\* C6: after a delta was submitted successfully the record's fingerprint key
\* is set.
C6_SuccessSetsKey ==
    (last.handler = "treat_page" /\ last.submit = "ok")
        => RedisKey(last.page) \in redis

\* C7: a failing submission is the last thing the handler does: it is sent
\* once, nothing follows it (no retry, no cache write), the run is not ended
\* by it and the generator has moved past the record.
C7_FailedSubmissionHandled ==
    (last.handler = "treat_page" /\ last.submit = "fail") =>
        /\ Len(SelectSeq(last.trace, LAMBDA call : call = "wbeditentity")) = 1
        /\ last.trace[Len(last.trace)] = "wbeditentity"
        /\ last.status = "returned"
        /\ pc \in {"running", "done"}
        /\ idx > last.page

\* The submission for the first record failed and the run stands at the second.
C7_Witness ==
    /\ last.handler = "treat_page" /\ last.submit = "fail"
    /\ last.bot \in BaseBots
    /\ last.page = 1 /\ idx = 2 /\ pc = "running"

\* C8: when the save step is entered with an empty delta, no request is made:
\* the trace does not grow after the entry and nothing is submitted.
C8_EmptyDeltaNoRequest ==
    (last.handler = "treat_page" /\ last.save_called /\ last.new_claims = <<>>) =>
        /\ Len(last.trace) = last.save_at
        /\ \A k \in DOMAIN last.trace : last.trace[k] \notin {"csrf", "wbeditentity"}
        /\ last.submit = "none"

\* BaseBot.save was entered with an empty delta.
C8_Witness ==
    /\ last.handler = "treat_page" /\ last.save_called /\ last.new_claims = <<>>
    /\ last.bot \in BaseBots

\* C9: in dry-run mode a handler submits nothing to the knowledge base and
\* the save step sets no fingerprint key.
C9_DryRunNoSubmission ==
    (last.handler = "treat_page" /\ last.dry_run) =>
        /\ \A k \in DOMAIN last.trace : last.trace[k] \notin {"csrf", "wbeditentity"}
        /\ last.submit = "none"
        /\ last.save_called =>
              \A k \in DOMAIN last.trace : k > last.save_at => last.trace[k] # "redis.set"

\* In dry-run mode the save step was entered with a non-empty delta.
C9_Witness ==
    /\ last.handler = "treat_page" /\ last.dry_run
    /\ last.save_called /\ last.new_claims # <<>>

\* C10 as stated: in dry-run mode the run is terminated after the first record
\* that reaches the save step.
C10_QuitAfterSaveReached ==
    (last.handler = "treat_page" /\ last.dry_run /\ last.save_called) => pc = "quit"

\* C10, amended: in dry-run mode the run is terminated after the first record
\* that reaches the save step with a non-empty delta; no further handler runs
\* in that run (the only step left is the start of a new run).
C10_QuitAfterNonEmptySave ==
    [][(/\ last.handler = "treat_page" /\ last.dry_run
        /\ last.save_called /\ last.new_claims # <<>>)
       => (pc = "quit" /\ run' = run + 1 /\ last'.handler = "none")]_vars

\* A dry run quit at a record that is not the last of the generator.
C10_Witness ==
    /\ last.handler = "treat_page" /\ last.dry_run
    /\ last.status = "quit" /\ pc = "quit"
    /\ last.page < NumRecords
-----------------------------------------------------------------------------
(* Properties of the Flickr statements (checked under FlickrSpec).         *)

\* The photo the last FlickrBot handler was answered with.
FlickrPhotoOf == platform.flickr[parse_flickr_url(last.extracted[1].data).photo_id]

\* The delta holds a statement of every property in props that the loaded
\* index lacks.
BuiltUnlessLoaded(props) ==
    \A prop \in props :
        (\A e \in last.loaded : e.prop # prop)
            => \E i \in DOMAIN last.new_claims : last.new_claims[i].prop = prop

C14_UnrecognizedEnumSetsKey ==
    (/\ last.handler = "treat_page" /\ last.bot = "flickr" /\ last.fetch = "ok"
     /\ (\/ (/\ wikidata_precision(FlickrPhotoOf.accuracy) = 0
              /\ ~(FlickrPhotoOf.latitude = 0 /\ FlickrPhotoOf.longitude = 0)
              /\ \A e \in last.loaded : e.prop # "CoordinatesOfThePointOfView")
         \/ (/\ precision_map(FlickrPhotoOf.granularity) = 0
              /\ \A e \in last.loaded : e.prop # "Inception")))
        => RedisKey(last.page) \in redis

-----------------------------------------------------------------------------
(* Properties of field extraction.                                         *)

\* What field extraction is to return for a page: the trimmed value of the
\* first of `parameters` held by the first template whose trimmed name is in
\* `templates`; NoText when there is no such template or no such parameter.
FirstTrimmedField(wikicode, templates, parameters) ==
    LET M == {k \in DOMAIN wikicode : wikicode[k].name.s \in templates}
    IN  IF M = {} THEN NoText
        ELSE LET t == wikicode[CHOOSE k \in M : \A j \in M : k <= j]
                 P == {i \in DOMAIN parameters : \E q \in t.params : q[1] = parameters[i]}
             IN  IF P = {} THEN NoText
                 ELSE LET i == CHOOSE i \in P : \A j \in P : i <= j
                          q == CHOOSE q \in t.params : q[1] = parameters[i]
                      IN  [pad |-> FALSE, s |-> q[2].s]

\* C16: every field extraction a handler makes returns, for the record's
\* page, the trimmed value of the first candidate parameter of the first
\* template whose trimmed name is a candidate name, and not-found otherwise.
C16_ExtractionFirstTrimmed ==
    last.handler = "treat_page" =>
        \A k \in DOMAIN last.extracted :
            last.extracted[k].data =
                FirstTrimmedField(wikitext[last.page].templates,
                                  last.extracted[k].templates, last.extracted[k].parameters)

ObservationOf(b) == platform.observations[b.photo.observation_id]

WalkedTaxon(b) ==
    IF ObservationOf(b).prefers_community_taxon
    THEN ObservationOf(b).community_taxon
    ELSE ObservationOf(b).taxon

\* The handler resolved the taxon of a research-grade observation.
TaxonResolved(b) ==
    /\ b.bot = "inaturalist"
    /\ b.handler = "treat_page"
    /\ b.fetch = "ok"
    /\ ObservationOf(b).quality_grade = "research"

\* C18: when a handler resolves the taxon of an observation, let the stopping
\* id be the most specific ancestor id that was cached when the handler began
\* or has at least one Wikidata item.  The ids queried are exactly the ancestor
\* ids from the most specific one down to the stopping id, in that order, the
\* stopping id itself only if it was not cached; nothing coarser is queried.
\* The depicts target is the cached item if the stopping id was cached, the
\* sole item if it has exactly one, and absent if it has several or if there
\* is no stopping id; a depicts statement is built for no other target.
C18_TaxonWalk ==
    [][ (TaxonResolved(last') /\ last'.page = idx) =>
          LET ids == WalkedTaxon(last')
              n == Len(ids)
              cached(i) == TaxaCached(taxa_wikidata_map, ids[i])
              Stops == {i \in 1..n : cached(i) \/ platform.taxa[ids[i]] # {}}
              k == IF Stops = {} THEN 0 ELSE CHOOSE i \in Stops : \A j \in Stops : j <= i
              queried == IF k = 0 THEN n ELSE IF cached(k) THEN n - k ELSE n - k + 1
              target == IF k = 0 THEN ""
                        ELSE IF cached(k) THEN TaxaItem(taxa_wikidata_map, ids[k])
                        ELSE IF Cardinality(platform.taxa[ids[k]]) = 1
                        THEN CHOOSE x \in platform.taxa[ids[k]] : TRUE
                        ELSE ""
          IN  /\ last'.lookups = [j \in 1..queried |-> ids[n + 1 - j]]
              /\ last'.photo.depicts = target
              /\ \A c \in DOMAIN last'.new_claims :
                    last'.new_claims[c].prop = "Depicts" =>
                        target # "" /\ last'.new_claims[c].item = target
              /\ (target # "" /\ last'.status \in {"returned", "quit"}) =>
                    \E c \in DOMAIN last'.new_claims :
                        last'.new_claims[c].prop = "Depicts"
      ]_vars

\* The most specific ancestor id has two items: it alone was queried and the
\* record was submitted without a depicts statement.
C18_Witness ==
    /\ TaxonResolved(last)
    /\ WalkedTaxon(last) = <<2, 4>>
    /\ last.lookups = <<4>>
    /\ last.photo.depicts = ""
    /\ last.submit = "ok"
    /\ \A c \in DOMAIN last.submitted : last.submitted[c].prop # "Depicts"

\* C19: within a run the taxa cache only gains entries; an entry is added only
\* for an id the handler queried and whose query returned exactly that one
\* item; the cache holds at most one item per id, so an id's item never
\* changes; and no handler queries an id that was cached when it began.
C19_CacheOnlyGains ==
    [][ /\ run' = run => taxa_wikidata_map \subseteq taxa_wikidata_map'
        /\ \A e \in taxa_wikidata_map' \ taxa_wikidata_map :
              /\ platform.taxa[e[1]] = {e[2]}
              /\ \E k \in DOMAIN last'.lookups : last'.lookups[k] = e[1]
        /\ \A e1, e2 \in taxa_wikidata_map' : e1[1] = e2[1] => e1 = e2
        /\ (last'.handler = "treat_page" /\ last'.page = idx) =>
              \A k \in DOMAIN last'.lookups :
                  ~TaxaCached(taxa_wikidata_map, last'.lookups[k])
      ]_vars

\* A later record of the run took its depicts target from the cache: the
\* first record cached id 5, the second queried id 1 only and stopped at 5.
C19_Witness ==
    /\ TaxonResolved(last)
    /\ last.page = 2
    /\ WalkedTaxon(last) = <<5, 1>>
    /\ last.lookups = <<1>>
    /\ last.photo.depicts = "Q_taxon5"
    /\ taxa_wikidata_map = {<<5, "Q_taxon5">>}

\* C20: a creator statement INaturalistBot builds has an item as its main value
\* exactly when Wikidata holds exactly one item for the platform user id, and
\* then that item; otherwise (no item or several) its main value is
\* unknown-value and it carries no item.
C20_CreatorMainSlot ==
    (last.bot = "inaturalist" /\ last.handler = "treat_page") =>
        \A k \in DOMAIN last.new_claims :
            last.new_claims[k].prop = "Creator" =>
                LET c == last.new_claims[k]
                    items == platform.users[last.photo.creator_id]
                IN  /\ c.snak \in {"value", "somevalue"}
                    /\ c.snak = "value" <=> Cardinality(items) = 1
                    /\ c.snak = "value" => c.item \in items
                    /\ c.snak = "somevalue" => c.item = ""

\* The user id has two items: the submitted creator statement is unknown-value.
C20_Witness ==
    /\ last.bot = "inaturalist"
    /\ last.submit = "ok"
    /\ Cardinality(platform.users[last.photo.creator_id]) = 2
    /\ \E k \in DOMAIN last.submitted :
          /\ last.submitted[k].prop = "Creator"
          /\ last.submitted[k].snak = "somevalue"


\* The external call `call` is in the handler's trace before position `at`.
CalledBefore(b, call, at) == \E i \in 1..at : i <= Len(b.trace) /\ b.trace[i] = call

\* C21: whenever a handler reaches statement building (it went on to the save
\* step), the existing-statement index its builders consulted is the statements
\* the knowledge base held for that record when the handler ran, loaded by a
\* wbgetentities call the handler itself made for that record before the save
\* step.
C21_IndexLoadedForRecord ==
    [][ (last'.handler = "treat_page" /\ last'.page = idx /\ last'.save_called) =>
            /\ last'.fetched = idx
            /\ CalledBefore(last', "wbgetentities", last'.save_at)
            /\ last'.loaded = kb[idx]
      ]_vars


\* C22: no step of the pipeline removes a key from the fingerprint cache: every
\* key present before a step (a handler, a skip, the end of a run, a new run) is
\* present after it.
C22_CacheAppendOnly == [][redis \subseteq redis']_vars

\* In a second run a record is skipped on a key set in the first run, while the
\* cache holds the keys of both records.
C22_Witness ==
    /\ run = 2
    /\ last.handler = "skip_page"
    /\ Cardinality(redis) = NumRecords
    /\ RedisKey(last.page) \in redis


\* C23: for the bots built on BaseBot, when the run passes a record whose key
\* is in the fingerprint cache, the knowledge base is left as it was and, if a
\* handler ran for the record at all, it ended as skipped having done nothing
\* but look the key up (no extraction, no fetch, no statement load, no
\* submission); when the run passes a record whose key is absent, the record is
\* skipped only for another reason (INaturalistBot: the bot account has edited
\* the file).
C23_SkippedIffKeySet ==
    [][ (bot \in BaseBots /\ pc = "running" /\ idx' = idx + 1) =>
            /\ RedisKey(idx) \in redis =>
                  /\ kb' = kb
                  /\ redis' = redis
                  /\ last'.page = idx =>
                        /\ last'.status = "skipped"
                        /\ \A i \in DOMAIN last'.trace :
                              last'.trace[i] \in {"redis.exists", "redis.get"}
                        /\ last'.extracted = <<>>
                        /\ last'.fetched = 0
                        /\ last'.submit = "none"
            /\ (RedisKey(idx) \notin redis /\ last'.page = idx /\ last'.status = "skipped") =>
                  bot = "inaturalist" /\ idx \in edited
      ]_vars

\* The archival-image bot skipped, in its second run, a record whose key an
\* earlier run had set.
C23_Witness ==
    /\ bot = "pas"
    /\ run = 2
    /\ last.handler = "skip_page"
    /\ last.status = "skipped"
    /\ last.trace = <<"redis.exists">>
    /\ RedisKey(last.page) \in redis


\* C24: when YouTubeBot has loaded the statements of a record, the delta holds
\* a licence statement only if the record has exactly one licence statement;
\* it then holds it once, under the GUID of the existing statement and with its
\* value and references unchanged, with every qualifier the statement had, and
\* with at least one qualifier more; each added qualifier is a title or an
\* author-name qualifier of a kind the statement did not have.  With no or
\* several licence statements, and when nothing was added, the delta holds no
\* licence statement.
C24_QualifierCompletion ==
    (last.bot = "youtube" /\ last.handler = "treat_page" /\ last.fetched = last.mid) =>
        LET licences == ClaimsOf(last.loaded, "CopyrightLicense")
            built == {k \in DOMAIN last.new_claims :
                          last.new_claims[k].prop = "CopyrightLicense"}
        IN  /\ Cardinality(licences) # 1 => built = {}
            /\ Cardinality(licences) = 1 =>
                  LET e == CHOOSE c \in licences : TRUE
                  IN  /\ Cardinality(built) <= 1
                      /\ \A k \in built :
                            LET c == last.new_claims[k]
                            IN  /\ [c EXCEPT !.quals = {}] = [e EXCEPT !.quals = {}]
                                /\ e.quals \subseteq c.quals
                                /\ c.quals # e.quals
                                /\ \A q \in c.quals \ e.quals :
                                      /\ q.prop \in {"Title", "AuthorNameString"}
                                      /\ LacksQualifier(e, q.prop)

\* The one licence statement had a title qualifier and no author name: it is
\* submitted with the old title kept and the author name added.
C24_Witness ==
    /\ last.bot = "youtube"
    /\ last.submit = "ok"
    /\ ClaimsOf(last.loaded, "CopyrightLicense") = {License(1, {Qualifier("Title", "Old title", <<>>)})}
    /\ \E k \in DOMAIN last.submitted :
          /\ last.submitted[k].id = 1
          /\ last.submitted[k].quals =
                {Qualifier("Title", "Old title", <<>>),
                 Qualifier("AuthorNameString", "Walks", <<>>)}


\* The statements of property prop in the delta of the last handler.
BuiltOf(prop) == {k \in DOMAIN last.new_claims : last.new_claims[k].prop = prop}

Calls(b, call) == Cardinality({i \in DOMAIN b.trace : b.trace[i] = call})

\* C26: a handler sends at most one wbeditentity request; the request it sends
\* is addressed to the record the handler runs for and carries the whole delta
\* built for it; and within a run the generator has moved past the record, so
\* no second handler of the run submits for it.
C26_OneRequestPerRecord ==
    last.handler = "treat_page" =>
        /\ Calls(last, "wbeditentity") <= 1
        /\ Calls(last, "wbeditentity") = 1 <=> last.submit # "none"
        /\ last.submit # "none" =>
              /\ last.submitted_to = last.page
              /\ last.submitted = last.new_claims
              /\ last.new_claims # <<>>
        /\ last.page < idx

\* A delta of several statements went out in one request.
C26_Witness ==
    /\ last.handler = "treat_page"
    /\ last.submit = "ok"
    /\ Calls(last, "wbeditentity") = 1
    /\ Len(last.submitted) >= 3
    /\ last.page = 2


\* What can go wrong in a handler's external calls, over all bots.
Failures == {"none", "fetch", "channel", "download", "hash"}

\* treat_page of the running bot's class, started from bot object b0.
TreatPageOf(b0, mid, failure, submit_result) ==
    CASE bot = "inaturalist" ->
           INaturalistBot_treat_page(b0, mid, wikitext[mid], failure = "fetch", submit_result)
      [] bot = "flickr" ->
           FlickrBot_treat_page(b0, mid, wikitext[mid], failure = "fetch", submit_result)
      [] bot = "youtube" -> YouTubeBot_treat_page(b0, mid, wikitext[mid], failure, submit_result)
      [] bot = "pas" ->
           PortableAntiquitiesSchemeBot_treat_page(b0, mid, wikitext[mid], failure,
                                                   submit_result)
      [] OTHER -> UsaceBot_treat_page(b0, mid, wikitext[mid], submit_result)

\* C27: whatever the bot object still holds as pending statements when the
\* handler of the next record starts (the delta of the previous record, whether
\* it was submitted, failed or was not sent), the handler reaches the save step
\* with the delta, and submits the request, that it would have with nothing
\* pending: no statement of an earlier record is in the later record's delta.
C27_DeltaOfThisRecordOnly ==
    (pc = "running" /\ idx <= NumRecords /\ ~skip_page(idx)) =>
        \A failure \in Failures, submit_result \in {"ok", "fail"} :
            LET left == TreatPageOf(Begin("treat_page", idx), idx, failure, submit_result)
                fresh == TreatPageOf([Begin("treat_page", idx) EXCEPT !.new_claims = <<>>],
                                     idx, failure, submit_result)
            IN  /\ left.submit = fresh.submit
                /\ left.submitted_to = fresh.submitted_to
                /\ left.submitted = fresh.submitted
                /\ left.save_called => left.new_claims = fresh.new_claims

\* The submission of the first record failed and its delta is still held by
\* the bot object while the second record, whose handler will submit, is next.
C27_Witness ==
    /\ pc = "running" /\ idx = 2 /\ ~skip_page(idx)
    /\ last.page = 1
    /\ last.submit = "fail"
    /\ last.new_claims # <<>>
    /\ TreatPageOf(Begin("treat_page", idx), idx, "none", "ok").submit = "ok"


\* The handler asked get_flickr_photo for a photo.
PhotoRequested(b) ==
    /\ b.bot = "flickr"
    /\ b.handler = "treat_page"
    /\ Calls(b, "redis.get.photo") = 1

\* The photo id the handler asked for.
RequestedPhotoId(b) == parse_flickr_url(b.extracted[1].data).photo_id

C29_ThreeChecksBeforeBuilding ==
    /\ (last.bot = "pas" /\ last.handler = "treat_page"
          /\ (last.save_called \/ last.new_claims # <<>> \/ last.submit # "none")) =>
            LET image_ids == find_matches(wikitext[last.page].links)
                image_id == CHOOSE i \in image_ids : TRUE
            IN  /\ Cardinality(image_ids) = 1
                /\ PASImage(image_id).found
                /\ PASImage(image_id).id = image_id
                /\ last.hash # ""
                /\ last.hash = wikitext[last.page].sha1
                /\ PASImage(image_id).sha1 = last.hash
    /\ (bot = "pas" /\ pc = "running" /\ idx <= NumRecords /\ ~skip_page(idx)) =>
            \A submit_result \in {"ok", "fail"} :
                LET r == TreatPageOf(Begin("treat_page", idx), idx, "hash", submit_result)
                IN  /\ r.status = "rejected"
                    /\ ~r.save_called
                    /\ r.new_claims = <<>>
                    /\ r.submit = "none"

\* A record that passes the three checks was submitted.
C29_Witness ==
    /\ last.bot = "pas" /\ last.handler = "treat_page"
    /\ last.submit = "ok"
    /\ last.hash = wikitext[last.page].sha1
    /\ Cardinality(find_matches(wikitext[last.page].links)) = 1

=============================================================================
